---- MODULE Spec2Model ----
(***************************************************************************)
(* A cluster of VirtualMachine nodes (machine.py): each node keeps a       *)
(* Lamport logical clock, a listener thread (run_server) that accepts      *)
(* inbound connections and hands each to a reader (handle_client), an      *)
(* inbound queue of received clock values, one outbound socket per peer    *)
(* (connect_to_peers), the scheduler loop (run) and shutdown.              *)
(*                                                                         *)
(* Machine identifiers are the single-digit strings "1", "2", "3" of the   *)
(* configuration files; they are written 1, 2, 3 here, for which the       *)
(* lexicographic order of sorted(self.peers.keys()) is the numeric order.  *)
(* The log is the sequence of log_event entries (the two header lines of   *)
(* the log file and the wall-clock timestamps are left out).               *)
(***************************************************************************)
EXTENDS Integers, Sequences, FiniteSets, TLC

\* ------------------------------------------------------------------ bounds

\* Scheduler ticks started in the whole cluster.
MaxTicks == 3

\* Direct calls (send_message, process_message_queue from a test thread)
\* made on the whole cluster.
MaxCalls == 5

\* Largest clock value fed to the clock update when it is checked on its own.
MaxArg == 10

\* Direct calls made on the cluster of three machines.
MaxTrioCalls == 3

\* Lines written on a connection by a client other than send_message.
MaxLines == 3

\* Replaced sockets of one machine to one peer that are open at a time, past
\* which connect_to_peers is not called again.
MaxDropped == 1

\* Calls made on machine 1 from the thread of the test, and messages machine 2
\* sends to it meanwhile.
MaxRaceCalls == 2

\* Iterations of run's loop that find the queue empty, and messages sent to
\* the machine, where the scheduler is followed until its queue is drained.
MaxDrainTicks == 2
MaxDrainSends == 2

\* ------------------------------------------------------- text of a message

DigitChars == <<"0", "1", "2", "3", "4", "5", "6", "7", "8", "9">>

IsDigit(ch) == \E i \in 1..10 : DigitChars[i] = ch

DigitVal(ch) == (CHOOSE i \in 1..10 : DigitChars[i] = ch) - 1

Whitespace == {" ", "\n", "\t", "\r"}

ClockPrefix == <<"c", "l", "o", "c", "k", ":">>

\* str(n) inside the f-string: the decimal digits of a non-negative integer.
RECURSIVE DecDigits(_)
DecDigits(n) ==
    IF n < 10 THEN <<DigitChars[n + 1]>>
    ELSE Append(DecDigits(n \div 10), DigitChars[(n % 10) + 1])

\* A message without the line terminator.
FormatMessageNoNewline(c) == ClockPrefix \o DecDigits(c)

\* message = f"clock:{self.logical_clock}\n"
FormatMessage(c) == ClockPrefix \o DecDigits(c) \o <<"\n">>

\* str.strip(): leading and trailing whitespace removed.
RECURSIVE LStrip(_)
LStrip(s) ==
    IF s # <<>> /\ Head(s) \in Whitespace THEN LStrip(Tail(s)) ELSE s

RECURSIVE RStrip(_)
RStrip(s) ==
    IF s # <<>> /\ s[Len(s)] \in Whitespace
    THEN RStrip(SubSeq(s, 1, Len(s) - 1)) ELSE s

Strip(s) == RStrip(LStrip(s))

\* str.startswith
StartsWith(s, p) == Len(s) >= Len(p) /\ SubSeq(s, 1, Len(p)) = p

\* Index of the first occurrence of p in s at or after position i, 0 if none.
RECURSIVE FindFrom(_, _, _)
FindFrom(s, p, i) ==
    IF i + Len(p) - 1 > Len(s) THEN 0
    ELSE IF SubSeq(s, i, i + Len(p) - 1) = p THEN i
    ELSE FindFrom(s, p, i + 1)

\* line.split("clock:")[1] for a line that starts with "clock:": the text
\* between the first occurrence of the separator and the next one (or the end).
SplitSecond(s) ==
    LET rest == SubSeq(s, Len(ClockPrefix) + 1, Len(s))
        nxt == FindFrom(rest, ClockPrefix, 1)
    IN  IF nxt = 0 THEN rest ELSE SubSeq(rest, 1, nxt - 1)

RECURSIVE DigitsValue(_, _)
DigitsValue(s, acc) ==
    IF s = <<>> THEN acc
    ELSE DigitsValue(Tail(s), 10 * acc + DigitVal(Head(s)))

\* Digits with single underscores between them (int() accepts "1_0").
RECURSIVE IsDigitGroup(_)
IsDigitGroup(s) ==
    /\ s # <<>>
    /\ IsDigit(Head(s))
    /\ \/ Len(s) = 1
       \/ /\ Len(s) > 1 /\ IsDigit(s[2]) /\ IsDigitGroup(Tail(s))
       \/ /\ Len(s) > 2 /\ s[2] = "_" /\ IsDigitGroup(Tail(Tail(s)))

RECURSIVE DropUnderscores(_)
DropUnderscores(s) ==
    IF s = <<>> THEN <<>>
    ELSE IF Head(s) = "_" THEN DropUnderscores(Tail(s))
    ELSE <<Head(s)>> \o DropUnderscores(Tail(s))

\* int(text): surrounding whitespace and one sign allowed; anything else is a
\* ValueError (ok = FALSE).
ParseInt(text) ==
    LET t    == Strip(text)
        sgn  == IF t # <<>> /\ Head(t) = "-" THEN -1 ELSE 1
        body == IF t # <<>> /\ Head(t) \in {"-", "+"} THEN Tail(t) ELSE t
    IN  IF IsDigitGroup(body)
        THEN [ok |-> TRUE, val |-> sgn * DigitsValue(DropUnderscores(body), 0)]
        ELSE [ok |-> FALSE, val |-> 0]

\* What handle_client does with one line of the stream: the value it puts on
\* the queue (put = TRUE) or nothing.
ParseLine(raw) ==
    LET line == Strip(raw)
    IN  IF StartsWith(line, ClockPrefix)
        THEN LET r == ParseInt(SplitSecond(line))
             IN  [put |-> r.ok, val |-> r.val]
        ELSE [put |-> FALSE, val |-> 0]

\* ------------------------------------------------------------ clock update

Max(a, b) == IF a >= b THEN a ELSE b

\* A clock update that only makes sure the result is past the message clock.
update_logical_clock_past_message(local_clock, message_clock) ==
    Max(local_clock, message_clock + 1)

update_logical_clock_on_receive(local_clock, message_clock) ==
    Max(local_clock, message_clock) + 1

\* ------------------------------------------------------------------- state

\* Machine identifiers a configuration file may name.
Machines == {1, 2, 3}

VARIABLES
    config,          \* keys of self.config["machines"]
    logical_clock,   \* self.logical_clock, per machine
    msg_queue,       \* self.msg_queue, per machine: received clock values
    q_from,          \* history: the sender of each entry of msg_queue
    running,         \* self.running
    server_socket,   \* self.server_socket: "none" (attribute not yet set), "open", "closed"
    peer_sockets,    \* self.peer_sockets: peer id -> "open" | "closed"
    log,             \* the events written by log_event
    srv_pc,          \* position of the server thread (run_server)
    run_pc,          \* position of the scheduler (run)
    cp_pc,           \* position of connect_to_peers
    cp_todo,         \* peers connect_to_peers has still to go through
    in_ctor,         \* the constructor has not returned yet (connect_peers=True)
    conn,            \* conn[s][r]: the connection from s as seen by r
    stream,          \* stream[s][r]: lines written by s that r has not read yet
    delivered,       \* history: delivered[s][r], the values of s dequeued by r
    dropped,         \* dropped[n][p]: open sockets of n to p that peer_sockets no longer holds
    ticks,           \* history: ticks started, per machine
    calls,           \* history: direct calls made
    last,            \* history: the operation that made the last step
    fn_pc,           \* the clock update checked on its own: "in" | "out"
    fn_local,
    fn_msg,
    fn_result,
    frames,          \* frames[t]: the call thread t is in on machine 1, statement by statement
    closing          \* closing[n]: the call of shutdown under way on machine n, statement by statement

node_vars == <<logical_clock, msg_queue, q_from, running, server_socket,
               peer_sockets, log>>
thread_vars == <<srv_pc, run_pc, cp_pc, cp_todo, in_ctor>>
net_vars == <<conn, stream, delivered, dropped>>
hist_vars == <<ticks, calls, last>>
fn_vars == <<fn_pc, fn_local, fn_msg, fn_result>>
vars == <<config, node_vars, thread_vars, net_vars, hist_vars, fn_vars,
          frames, closing>>

\* The threads that call into one machine in testrun.py: the scheduler thread
\* (target=vm.run) and the thread of the test.
Threads == {"sched", "test"}

\* No call of shutdown under way: pc is the statement the call is at, used
\* the size of self.peer_sockets when the iteration over its values began,
\* todo the keys the iteration has still to visit, exc the exception that
\* left the call.
NotClosing == [pc |-> "idle", used |-> 0, todo |-> <<>>, exc |-> "none"]

\* A thread that is in no call: op is the call ("send", "drain", "internal"),
\* pc the statement it is at, local the value it loaded from
\* self.logical_clock, message the clock of the message it formatted or
\* dequeued.
IdleFrame == [pc |-> "idle", op |-> "none", local |-> 0, message |-> 0]

\* self.peers: every configured machine except this one.
peers(n) == config \ {n}

RECURSIVE SortedSeq(_)
SortedSeq(S) ==
    IF S = {} THEN <<>>
    ELSE LET m == CHOOSE x \in S : \A y \in S : x <= y
         IN  <<m>> \o SortedSeq(S \ {m})

\* sorted(self.peers.keys())
sorted_peers(n) == SortedSeq(peers(n))

\* What one step did: the operation, the machine, the peer of a direct send,
\* the value drawn by a tick (0: none drawn; 4 stands for every draw of 4 to
\* 10, which all take the same branch), what the call returned and the
\* exception that left it ("none": it returned normally).
Ev(op, n, p, draw, ret, exc) ==
    [op |-> op, node |-> n, peer |-> p, draw |-> draw, ret |-> ret, exc |-> exc]

NoEv == Ev("init", 0, 0, 0, FALSE, "none")

\* ------------------------------------------------- operations of one machine

\* The part of a machine's state its operations read and write: the clock,
\* the log, the inbound queue, the lines written on each outbound connection
\* (out), the return value of process_message_queue (processed) and the
\* exception raised ("none" if none).
Local(n) ==
    [clock |-> logical_clock[n], log |-> log[n], queue |-> msg_queue[n],
     out |-> stream[n], processed |-> FALSE, exc |-> "none"]

\* One log entry: the event type, the clock at the time of logging, and the
\* details (the peer of a SEND or ERROR, the received value and the queue
\* length of a RECEIVE; 0 where the details have none).
log_event(st, event_type, peer_id, message_clock, queue_length) ==
    [st EXCEPT !.log = Append(@, [type |-> event_type, clock |-> st.clock,
                                  peer |-> peer_id, msg |-> message_clock,
                                  qlen |-> queue_length])]

\* socket.sendall raises on a socket this machine has closed.
sendall_fails(sock) == sock # "open"

\* A send that formats the message before it increments the clock.
send_message_stale(st, socks, peer_id) ==
    IF peer_id \in DOMAIN socks
    THEN LET s1 == [st EXCEPT !.clock = @ + 1]
         IN  IF sendall_fails(socks[peer_id])
             THEN log_event(s1, "ERROR", peer_id, 0, 0)
             ELSE log_event(
                      [s1 EXCEPT !.out[peer_id] = Append(@, FormatMessage(st.clock))],
                      "SEND", peer_id, 0, 0)
    ELSE log_event(st, "ERROR", peer_id, 0, 0)

\* A send that increments the clock before it looks for the connection.
send_message_eager(st, socks, peer_id) ==
    LET s1 == [st EXCEPT !.clock = @ + 1]
    IN  IF peer_id \in DOMAIN socks
        THEN IF sendall_fails(socks[peer_id])
             THEN log_event(s1, "ERROR", peer_id, 0, 0)
             ELSE log_event(
                      [s1 EXCEPT !.out[peer_id] = Append(@, FormatMessage(s1.clock))],
                      "SEND", peer_id, 0, 0)
        ELSE log_event(s1, "ERROR", peer_id, 0, 0)

\* A send that takes the increment back when the write fails.
send_message_rollback(st, socks, peer_id) ==
    IF peer_id \in DOMAIN socks
    THEN LET s1 == [st EXCEPT !.clock = @ + 1]
         IN  IF sendall_fails(socks[peer_id])
             THEN log_event(st, "ERROR", peer_id, 0, 0)
             ELSE log_event(
                      [s1 EXCEPT !.out[peer_id] = Append(@, FormatMessage(s1.clock))],
                      "SEND", peer_id, 0, 0)
    ELSE log_event(st, "ERROR", peer_id, 0, 0)

send_message(st, socks, peer_id) ==
    IF peer_id \in DOMAIN socks
    THEN LET s1 == [st EXCEPT !.clock = @ + 1]
         IN  IF sendall_fails(socks[peer_id])
             THEN log_event(s1, "ERROR", peer_id, 0, 0)
             ELSE log_event(
                      [s1 EXCEPT !.out[peer_id] = Append(@, FormatMessage(s1.clock))],
                      "SEND", peer_id, 0, 0)
    ELSE log_event(st, "ERROR", peer_id, 0, 0)

\* A drain that sets the clock one past the message clock, whatever the
\* local clock.
process_message_queue_nomax(st) ==
    IF st.queue # <<>>
    THEN LET message_clock == Head(st.queue)
             s1 == [st EXCEPT !.queue = Tail(@), !.clock = message_clock + 1]
         IN  [log_event(s1, "RECEIVE", 0, message_clock, Len(s1.queue))
                 EXCEPT !.processed = TRUE]
    ELSE [st EXCEPT !.processed = FALSE]

\* A drain that takes the newest entry of the queue.
process_message_queue_newest(st) ==
    IF st.queue # <<>>
    THEN LET message_clock == st.queue[Len(st.queue)]
             s1 == [st EXCEPT
                       !.queue = SubSeq(@, 1, Len(@) - 1),
                       !.clock = update_logical_clock_on_receive(@, message_clock)]
         IN  [log_event(s1, "RECEIVE", 0, message_clock, Len(s1.queue))
                 EXCEPT !.processed = TRUE]
    ELSE [st EXCEPT !.processed = FALSE]

process_message_queue(st) ==
    IF st.queue # <<>>
    THEN LET message_clock == Head(st.queue)
             s1 == [st EXCEPT
                       !.queue = Tail(@),
                       !.clock = update_logical_clock_on_receive(@, message_clock)]
         IN  [log_event(s1, "RECEIVE", 0, message_clock, Len(s1.queue))
                 EXCEPT !.processed = TRUE]
    ELSE [st EXCEPT !.processed = FALSE]

\* A broadcast that walks the peers in descending order of identifier.
RECURSIVE send_to_all_descending(_, _, _)
send_to_all_descending(st, socks, ps) ==
    IF ps = <<>> THEN st
    ELSE send_to_all_descending(send_message(st, socks, ps[Len(ps)]), socks,
                                SubSeq(ps, 1, Len(ps) - 1))

\* for peer_id in sorted(self.peers.keys()): self.send_message(peer_id)
RECURSIVE send_to_all(_, _, _)
send_to_all(st, socks, ps) ==
    IF ps = <<>> THEN st
    ELSE send_to_all(send_message(st, socks, Head(ps)), socks, Tail(ps))

\* A tick that, having processed a message, goes on to an internal event.
run_tick_and_more(st, socks, ps, event_choice) ==
    LET s1 == process_message_queue(st)
    IN  IF s1.processed
        THEN log_event([s1 EXCEPT !.clock = @ + 1], "INTERNAL", 0, 0, 0)
        ELSE IF event_choice = 1
        THEN IF Len(ps) = 0 THEN [s1 EXCEPT !.exc = "IndexError"]
             ELSE send_message(s1, socks, ps[1])
        ELSE IF event_choice = 2
        THEN IF Len(ps) > 1 THEN send_message(s1, socks, ps[2])
             ELSE IF Len(ps) = 0 THEN [s1 EXCEPT !.exc = "IndexError"]
             ELSE send_message(s1, socks, ps[1])
        ELSE IF event_choice = 3
        THEN send_to_all(s1, socks, ps)
        ELSE log_event([s1 EXCEPT !.clock = @ + 1], "INTERNAL", 0, 0, 0)

\* The body of one iteration of run's loop, for the value random.randint(1, 10)
\* returns (drawn only when no message was processed).
run_tick(st, socks, ps, event_choice) ==
    LET s1 == process_message_queue(st)
    IN  IF s1.processed THEN s1
        ELSE IF event_choice = 1
        THEN IF Len(ps) = 0 THEN [s1 EXCEPT !.exc = "IndexError"]
             ELSE send_message(s1, socks, ps[1])
        ELSE IF event_choice = 2
        THEN IF Len(ps) > 1 THEN send_message(s1, socks, ps[2])
             ELSE IF Len(ps) = 0 THEN [s1 EXCEPT !.exc = "IndexError"]
             ELSE send_message(s1, socks, ps[1])
        ELSE IF event_choice = 3
        THEN send_to_all(s1, socks, ps)
        ELSE log_event([s1 EXCEPT !.clock = @ + 1], "INTERNAL", 0, 0, 0)

\* A close without the try/except around it.
not_swallowed(e) == e

\* except Exception: every exception raised by a close is swallowed.
swallowed(e) == "none"

\* self.server_socket.close(): an AttributeError while the server thread has
\* not yet set the attribute.
close_server_socket(ss) ==
    IF ss = "none"
    THEN [sock |-> "none", exc |-> swallowed("AttributeError")]
    ELSE [sock |-> "closed", exc |-> swallowed("none")]

\* sock.close() on every socket of the map; closing a closed socket is a no-op.
close_peer_sockets(socks) == [p \in DOMAIN socks |-> "closed"]

\* ------------------------------------------------------------ initial state

\* self.peers.items(): the peers in the order of the configuration file, which
\* lists the machines in ascending order.
peer_items(n) == sorted_peers(n)

\* The state after every VirtualMachine of the configuration has run __init__
\* up to self.peer_sockets = {}: the server thread is started and has not yet
\* created its socket; with connect_peers=True the constructor goes on into
\* connect_to_peers.
InitCluster(cfg, connect_peers) ==
    /\ config = cfg
    /\ logical_clock = [n \in cfg |-> 0]
    /\ msg_queue = [n \in cfg |-> <<>>]
    /\ q_from = [n \in cfg |-> <<>>]
    /\ running = [n \in cfg |-> TRUE]
    /\ server_socket = [n \in cfg |-> "none"]
    /\ peer_sockets = [n \in cfg |-> <<>>]
    /\ log = [n \in cfg |-> <<>>]
    /\ srv_pc = [n \in cfg |-> "start"]
    /\ run_pc = [n \in cfg |-> "idle"]
    /\ in_ctor = connect_peers
    /\ cp_pc = [n \in cfg |-> IF connect_peers[n] THEN "check" ELSE "idle"]
    /\ cp_todo = [n \in cfg |-> IF connect_peers[n]
                                THEN SortedSeq(cfg \ {n}) ELSE <<>>]
    /\ conn = [s \in cfg |-> [r \in cfg |-> "none"]]
    /\ stream = [s \in cfg |-> [r \in cfg |-> <<>>]]
    /\ delivered = [s \in cfg |-> [r \in cfg |-> <<>>]]
    /\ dropped = [n \in cfg |-> [p \in cfg |-> 0]]
    /\ frames = [t \in Threads |-> IdleFrame]
    /\ closing = [n \in cfg |-> NotClosing]
    /\ ticks = [n \in cfg |-> 0]
    /\ calls = 0
    /\ last = NoEv

\* The state once the cluster has started: every server thread waits in
\* accept, the machines of `connected` have gone through connect_to_peers and
\* their connections have been accepted; on the others connect_to_peers has
\* not been called. run() has been called on the machines of `started` (as
\* run_machine.py does); the others are driven by direct calls (as the unit
\* tests do).
InitStarted(cfg, connected, started) ==
    /\ config = cfg
    /\ logical_clock = [n \in cfg |-> 0]
    /\ msg_queue = [n \in cfg |-> <<>>]
    /\ q_from = [n \in cfg |-> <<>>]
    /\ running = [n \in cfg |-> TRUE]
    /\ server_socket = [n \in cfg |-> "open"]
    /\ peer_sockets = [n \in cfg |->
                          IF n \in connected
                          THEN [p \in cfg \ {n} |-> "open"] ELSE <<>>]
    /\ log = [n \in cfg |-> <<>>]
    /\ srv_pc = [n \in cfg |-> "accept"]
    /\ run_pc = [n \in cfg |-> IF n \in started THEN "top" ELSE "idle"]
    /\ in_ctor = [n \in cfg |-> FALSE]
    /\ cp_pc = [n \in cfg |-> IF n \in connected THEN "done" ELSE "idle"]
    /\ cp_todo = [n \in cfg |-> <<>>]
    /\ conn = [s \in cfg |-> [r \in cfg |->
                  IF s \in connected /\ r # s THEN "reading" ELSE "none"]]
    /\ stream = [s \in cfg |-> [r \in cfg |-> <<>>]]
    /\ delivered = [s \in cfg |-> [r \in cfg |-> <<>>]]
    /\ dropped = [n \in cfg |-> [p \in cfg |-> 0]]
    /\ frames = [t \in Threads |-> IdleFrame]
    /\ closing = [n \in cfg |-> NotClosing]
    /\ ticks = [n \in cfg |-> 0]
    /\ calls = 0
    /\ last = NoEv

InitFnIdle ==
    /\ fn_pc = "in"
    /\ fn_local = 0
    /\ fn_msg = 0
    /\ fn_result = 0

\* Two machines in operation: connected to each other or not yet, both
\* running their scheduler or both driven by direct calls.
Init ==
    /\ \E connected \in {{1, 2}, {}} : \E started \in {{1, 2}, {}} :
           InitStarted({1, 2}, connected, started)
    /\ InitFnIdle

\* ----------------------------------------------------------------- actions

\* Write back what an operation of machine n computed.
Store(n, st) ==
    /\ logical_clock' = [logical_clock EXCEPT ![n] = st.clock]
    /\ log' = [log EXCEPT ![n] = st.log]
    /\ msg_queue' = [msg_queue EXCEPT ![n] = st.queue]
    /\ stream' = [stream EXCEPT ![n] = st.out]
    /\ q_from' = [q_from EXCEPT ![n] = IF st.processed THEN Tail(@) ELSE @]
    /\ delivered' = IF st.processed
                    THEN [delivered EXCEPT ![Head(q_from[n])][n] =
                                               Append(@, st.log[Len(st.log)].msg)]
                    ELSE delivered

\* A listener that is started only once the constructor has returned.
ServerStartAfterInit(n) ==
    /\ n \in config
    /\ ~in_ctor[n]
    /\ srv_pc[n] = "start"
    /\ server_socket' = [server_socket EXCEPT ![n] = "open"]
    /\ srv_pc' = [srv_pc EXCEPT ![n] = "loop"]
    /\ last' = Ev("run_server", n, 0, 0, FALSE, "none")
    /\ UNCHANGED <<config, logical_clock, msg_queue, q_from, running,
                   peer_sockets, log, run_pc, cp_pc, cp_todo, in_ctor,
                   net_vars, ticks, calls, fn_vars, frames, closing>>

\* run_server up to the loop: the socket is created, bound and listening.
ServerStart(n) ==
    /\ n \in config
    /\ srv_pc[n] = "start"
    /\ server_socket' = [server_socket EXCEPT ![n] = "open"]
    /\ srv_pc' = [srv_pc EXCEPT ![n] = "loop"]
    /\ last' = Ev("run_server", n, 0, 0, FALSE, "none")
    /\ UNCHANGED <<config, logical_clock, msg_queue, q_from, running,
                   peer_sockets, log, run_pc, cp_pc, cp_todo, in_ctor,
                   net_vars, ticks, calls, fn_vars, frames, closing>>

\* while self.running
ServerCheck(n) ==
    /\ n \in config
    /\ srv_pc[n] = "loop"
    /\ srv_pc' = [srv_pc EXCEPT ![n] = IF running[n] THEN "accept" ELSE "done"]
    /\ last' = Ev("server_check", n, 0, 0, running[n], "none")
    /\ UNCHANGED <<config, node_vars, run_pc, cp_pc, cp_todo, in_ctor,
                   net_vars, ticks, calls, fn_vars, frames, closing>>

\* self.server_socket.accept(): OSError on a closed socket (not caught: the
\* thread ends), a pending connection handed to a new handle_client thread, or
\* socket.timeout when none is pending.
ServerAccept(n) ==
    /\ n \in config
    /\ srv_pc[n] = "accept"
    /\ IF server_socket[n] # "open"
       THEN /\ srv_pc' = [srv_pc EXCEPT ![n] = "crashed"]
            /\ last' = Ev("accept", n, 0, 0, FALSE, "OSError")
            /\ UNCHANGED conn
       ELSE IF \E s \in config : conn[s][n] = "backlog"
       THEN \E s \in config :
               /\ conn[s][n] = "backlog"
               /\ conn' = [conn EXCEPT ![s][n] = "reading"]
               /\ srv_pc' = [srv_pc EXCEPT ![n] = "loop"]
               /\ last' = Ev("accept", n, s, 0, TRUE, "none")
       ELSE /\ srv_pc' = [srv_pc EXCEPT ![n] = "loop"]
            /\ last' = Ev("accept", n, 0, 0, FALSE, "timeout")
            /\ UNCHANGED conn
    /\ UNCHANGED <<config, node_vars, run_pc, cp_pc, cp_todo, in_ctor,
                   stream, delivered, dropped, ticks, calls, fn_vars, frames, closing>>

\* A reader that puts the value at the front of the queue.
HandleClientLineFront(r, s) ==
    /\ r \in config
    /\ s \in config
    /\ conn[s][r] = "reading"
    /\ stream[s][r] # <<>>
    /\ LET parsed == ParseLine(Head(stream[s][r]))
       IN  /\ msg_queue' = [msg_queue EXCEPT ![r] =
                               IF parsed.put THEN <<parsed.val>> \o @ ELSE @]
           /\ q_from' = [q_from EXCEPT ![r] =
                               IF parsed.put THEN <<s>> \o @ ELSE @]
           /\ last' = Ev("handle_client", r, s, 0, parsed.put, "none")
    /\ stream' = [stream EXCEPT ![s][r] = Tail(@)]
    /\ UNCHANGED <<config, logical_clock, running, server_socket, peer_sockets,
                   log, thread_vars, conn, delivered, dropped, ticks, calls,
                   fn_vars, frames, closing>>

\* handle_client: one line of the connection from s read by r.
HandleClientLine(r, s) ==
    /\ r \in config
    /\ s \in config
    /\ conn[s][r] = "reading"
    /\ stream[s][r] # <<>>
    /\ LET parsed == ParseLine(Head(stream[s][r]))
       IN  /\ msg_queue' = [msg_queue EXCEPT ![r] =
                               IF parsed.put THEN Append(@, parsed.val) ELSE @]
           /\ q_from' = [q_from EXCEPT ![r] =
                               IF parsed.put THEN Append(@, s) ELSE @]
           /\ last' = Ev("handle_client", r, s, 0, parsed.put, "none")
    /\ stream' = [stream EXCEPT ![s][r] = Tail(@)]
    /\ UNCHANGED <<config, logical_clock, running, server_socket, peer_sockets,
                   log, thread_vars, conn, delivered, dropped, ticks, calls,
                   fn_vars, frames, closing>>

\* handle_client: the stream ends (the sender closed its socket and every line
\* was read); the with block closes the connection.
HandleClientEof(r, s) ==
    /\ r \in config
    /\ s \in config
    /\ conn[s][r] = "reading"
    /\ stream[s][r] = <<>>
    /\ r \in DOMAIN peer_sockets[s]
    /\ peer_sockets[s][r] = "closed"
    /\ conn' = [conn EXCEPT ![s][r] = "eof"]
    /\ last' = Ev("handle_client_eof", r, s, 0, FALSE, "none")
    /\ UNCHANGED <<config, node_vars, thread_vars, stream, delivered, dropped, ticks,
                   calls, fn_vars, frames, closing>>

\* connect_to_peers called on a constructed machine (connect_peers=False).
ConnectStart(n) ==
    /\ n \in config
    /\ ~in_ctor[n]
    /\ cp_pc[n] = "idle"
    /\ cp_pc' = [cp_pc EXCEPT ![n] = "check"]
    /\ cp_todo' = [cp_todo EXCEPT ![n] = peer_items(n)]
    /\ last' = Ev("connect_to_peers", n, 0, 0, FALSE, "none")
    /\ UNCHANGED <<config, node_vars, srv_pc, run_pc, in_ctor, net_vars,
                   ticks, calls, fn_vars, frames, closing>>

\* The for loop and the test of "while not connected and self.running" for
\* the next peer: no peer left, the call returns; the machine stopped, the
\* peer is skipped; otherwise an attempt follows.
ConnectCheck(n) ==
    /\ n \in config
    /\ cp_pc[n] = "check"
    /\ IF cp_todo[n] = <<>>
       THEN /\ cp_pc' = [cp_pc EXCEPT ![n] = "done"]
            /\ in_ctor' = [in_ctor EXCEPT ![n] = FALSE]
            /\ UNCHANGED cp_todo
       ELSE IF running[n]
       THEN /\ cp_pc' = [cp_pc EXCEPT ![n] = "attempt"]
            /\ UNCHANGED <<cp_todo, in_ctor>>
       ELSE /\ cp_todo' = [cp_todo EXCEPT ![n] = Tail(@)]
            /\ UNCHANGED <<cp_pc, in_ctor>>
    /\ last' = Ev("connect_check", n, 0, 0, FALSE, "none")
    /\ UNCHANGED <<config, node_vars, srv_pc, run_pc, net_vars, ticks, calls,
                   fn_vars, frames, closing>>

\* A connect that gives a refused peer up instead of trying again.
ConnectAttemptOnce(n) ==
    /\ n \in config
    /\ cp_pc[n] = "attempt"
    /\ LET peer_id == Head(cp_todo[n])
       IN  IF server_socket[peer_id] = "open"
           THEN /\ peer_sockets' = [peer_sockets EXCEPT ![n] =
                       [p \in DOMAIN @ \cup {peer_id} |->
                           IF p = peer_id THEN "open" ELSE @[p]]]
                /\ dropped' = [dropped EXCEPT ![n][peer_id] =
                       IF peer_id \in DOMAIN peer_sockets[n]
                          /\ peer_sockets[n][peer_id] = "open"
                       THEN @ + 1 ELSE @]
                /\ conn' = [conn EXCEPT ![n][peer_id] = "backlog"]
                /\ last' = Ev("connect", n, peer_id, 0, TRUE, "none")
           ELSE /\ last' = Ev("connect", n, peer_id, 0, FALSE,
                              "ConnectionRefusedError")
                /\ UNCHANGED <<peer_sockets, conn, dropped>>
    /\ cp_todo' = [cp_todo EXCEPT ![n] = Tail(@)]
    /\ cp_pc' = [cp_pc EXCEPT ![n] = "check"]
    /\ UNCHANGED <<config, logical_clock, msg_queue, q_from, running,
                   server_socket, log, srv_pc, run_pc, in_ctor, stream,
                   delivered, ticks, calls, fn_vars, frames, closing>>

\* s.connect: established when the peer listens (the connection waits in the
\* peer's backlog), refused otherwise (the socket is closed and the loop
\* tries again after the sleep). The new socket is stored under the peer's
\* identifier: an open socket already stored there is replaced without being
\* closed. conn follows the newest connection of the pair.
ConnectAttempt(n) ==
    /\ n \in config
    /\ cp_pc[n] = "attempt"
    /\ LET peer_id == Head(cp_todo[n])
       IN  IF server_socket[peer_id] = "open"
           THEN /\ peer_sockets' = [peer_sockets EXCEPT ![n] =
                       [p \in DOMAIN @ \cup {peer_id} |->
                           IF p = peer_id THEN "open" ELSE @[p]]]
                /\ dropped' = [dropped EXCEPT ![n][peer_id] =
                       IF peer_id \in DOMAIN peer_sockets[n]
                          /\ peer_sockets[n][peer_id] = "open"
                       THEN @ + 1 ELSE @]
                /\ conn' = [conn EXCEPT ![n][peer_id] = "backlog"]
                /\ cp_todo' = [cp_todo EXCEPT ![n] = Tail(@)]
                /\ last' = Ev("connect", n, peer_id, 0, TRUE, "none")
           ELSE /\ last' = Ev("connect", n, peer_id, 0, FALSE,
                              "ConnectionRefusedError")
                /\ UNCHANGED <<peer_sockets, conn, cp_todo, dropped>>
    /\ cp_pc' = [cp_pc EXCEPT ![n] = "check"]
    /\ UNCHANGED <<config, logical_clock, msg_queue, q_from, running,
                   server_socket, log, srv_pc, run_pc, in_ctor, stream,
                   delivered, ticks, calls, fn_vars, frames, closing>>

\* connect_to_peers called again on a machine whose connect phase is over.
ConnectAgain(n) ==
    /\ n \in config
    /\ ~in_ctor[n]
    /\ cp_pc[n] = "done"
    /\ \A p \in config : dropped[n][p] < MaxDropped
    /\ cp_pc' = [cp_pc EXCEPT ![n] = "check"]
    /\ cp_todo' = [cp_todo EXCEPT ![n] = peer_items(n)]
    /\ last' = Ev("connect_to_peers", n, 0, 0, TRUE, "none")
    /\ UNCHANGED <<config, node_vars, srv_pc, run_pc, in_ctor, net_vars,
                   ticks, calls, fn_vars, frames, closing>>

\* The interpreter finalizes a socket object nothing refers to any more, and
\* so closes it (at once under reference counting, later or never under
\* another collector).
Finalize(n, p) ==
    /\ n \in config
    /\ p \in config
    /\ dropped[n][p] > 0
    /\ dropped' = [dropped EXCEPT ![n][p] = @ - 1]
    /\ last' = Ev("finalize", n, p, 0, FALSE, "none")
    /\ UNCHANGED <<config, node_vars, thread_vars, conn, stream, delivered,
                   ticks, calls, fn_vars, frames, closing>>

RECURSIVE SumOver(_, _)
SumOver(f, S) ==
    IF S = {} THEN 0
    ELSE LET x == CHOOSE y \in S : TRUE IN f[x] + SumOver(f, S \ {x})

\* Ticks started in the whole cluster.
TotalTicks == SumOver(ticks, config)

\* run() is called (after the constructor returned).
RunStart(n) ==
    /\ n \in config
    /\ ~in_ctor[n]
    /\ run_pc[n] = "idle"
    /\ run_pc' = [run_pc EXCEPT ![n] = "top"]
    /\ last' = Ev("run", n, 0, 0, FALSE, "none")
    /\ UNCHANGED <<config, node_vars, srv_pc, cp_pc, cp_todo, in_ctor,
                   net_vars, ticks, calls, fn_vars, frames, closing>>

\* A loop test that does not look at the stop flag.
RunCheckIgnoresFlag(n) ==
    /\ n \in config
    /\ run_pc[n] = "top"
    /\ run_pc' = [run_pc EXCEPT ![n] = "tick"]
    /\ last' = Ev("run_check", n, 0, 0, TRUE, "none")
    /\ UNCHANGED <<config, node_vars, srv_pc, cp_pc, cp_todo, in_ctor,
                   net_vars, ticks, calls, fn_vars, frames, closing>>

\* A loop test that lets run make one iteration only (an if in place of the
\* while).
RunCheckOnce(n) ==
    /\ n \in config
    /\ run_pc[n] = "top"
    /\ run_pc' = [run_pc EXCEPT ![n] =
                     IF running[n] /\ ticks[n] = 0 THEN "tick" ELSE "done"]
    /\ last' = Ev("run_check", n, 0, 0, running[n], "none")
    /\ UNCHANGED <<config, node_vars, srv_pc, cp_pc, cp_todo, in_ctor,
                   net_vars, ticks, calls, fn_vars, frames, closing>>

\* while self.running, at the top of an iteration of run.
RunCheck(n) ==
    /\ n \in config
    /\ run_pc[n] = "top"
    /\ run_pc' = [run_pc EXCEPT ![n] = IF running[n] THEN "tick" ELSE "done"]
    /\ last' = Ev("run_check", n, 0, 0, running[n], "none")
    /\ UNCHANGED <<config, node_vars, srv_pc, cp_pc, cp_todo, in_ctor,
                   net_vars, ticks, calls, fn_vars, frames, closing>>

\* One iteration of run's loop; an exception raised in it ends run.
TickBody(n) ==
    /\ n \in config
    /\ run_pc[n] = "tick"
    /\ \E event_choice \in 1..10 :
          LET st == run_tick(Local(n), peer_sockets[n], sorted_peers(n),
                             event_choice)
          IN  /\ Store(n, st)
              /\ run_pc' = [run_pc EXCEPT ![n] =
                               IF st.exc = "none" THEN "top" ELSE "crashed"]
              /\ last' = Ev("tick", n, 0,
                            IF st.processed THEN 0
                            ELSE IF event_choice > 3 THEN 4 ELSE event_choice,
                            st.processed, st.exc)
    /\ ticks' = [ticks EXCEPT ![n] = @ + 1]
    /\ UNCHANGED <<config, running, server_socket, peer_sockets, srv_pc,
                   cp_pc, cp_todo, in_ctor, conn, dropped, calls, fn_vars, frames, closing>>

\* An iteration of run's loop, while the cluster has ticks left.
Tick(n) ==
    /\ TotalTicks < MaxTicks
    /\ TickBody(n)

\* An iteration of run's loop that is never cut short once the machine has
\* been asked to stop: the tick under way at shutdown is completed.
TickToStop(n) ==
    /\ TotalTicks < MaxTicks \/ ~running[n]
    /\ TickBody(n)

\* send_message(peer_id) called directly, as the unit tests do, for any
\* identifier, on a machine whose scheduler has not been started.
CallSendMessage(n, peer_id) ==
    /\ n \in config
    /\ ~in_ctor[n]
    /\ run_pc[n] = "idle"
    /\ calls < MaxCalls
    /\ LET st == send_message(Local(n), peer_sockets[n], peer_id)
       IN  /\ Store(n, st)
           /\ last' = Ev("send_message", n, peer_id, 0, FALSE, st.exc)
    /\ calls' = calls + 1
    /\ UNCHANGED <<config, running, server_socket, peer_sockets, thread_vars,
                   conn, dropped, ticks, fn_vars, frames, closing>>

\* process_message_queue() called directly, as the unit tests do, on a machine
\* whose scheduler has not been started.
CallProcessMessageQueue(n) ==
    /\ n \in config
    /\ ~in_ctor[n]
    /\ run_pc[n] = "idle"
    /\ calls < MaxCalls
    /\ LET st == process_message_queue(Local(n))
       IN  /\ Store(n, st)
           /\ last' = Ev("process_message_queue", n, 0, 0, st.processed, st.exc)
    /\ calls' = calls + 1
    /\ UNCHANGED <<config, running, server_socket, peer_sockets, thread_vars,
                   conn, dropped, ticks, fn_vars, frames, closing>>

\* shutdown(); ret records that the step before was a shutdown of the same
\* machine (this call is a repeated one).
Shutdown(n) ==
    /\ n \in config
    /\ ~in_ctor[n]
    /\ LET r == close_server_socket(server_socket[n])
       IN  /\ running' = [running EXCEPT ![n] = FALSE]
           /\ server_socket' = [server_socket EXCEPT ![n] = r.sock]
           /\ peer_sockets' = [peer_sockets EXCEPT ![n] = close_peer_sockets(@)]
           /\ last' = Ev("shutdown", n, 0, 0,
                         last.op = "shutdown" /\ last.node = n, r.exc)
    /\ UNCHANGED <<config, logical_clock, msg_queue, q_from, log, thread_vars,
                   net_vars, ticks, calls, fn_vars, frames, closing>>

\* The cluster in operation: scheduler ticks, direct calls, readers, shutdown.
Next ==
    \E n \in Machines :
        \/ \E s \in Machines : HandleClientLine(n, s)
        \/ RunCheck(n)
        \/ Tick(n)
        \/ \E peer_id \in Machines : CallSendMessage(n, peer_id)
        \/ CallProcessMessageQueue(n)
        \/ Shutdown(n)

Spec == Init /\ [][Next]_vars

\* Three machines with the reader of every connection at work: machines 1
\* and 2 are connected to their peers and driven by direct calls of
\* send_message to machine 3, which runs its scheduler and has not run its
\* connect phase.
InitTrio ==
    /\ InitStarted({1, 2, 3}, {1, 2}, {3})
    /\ InitFnIdle

\* send_message("3") called directly on machine 1 or 2.
TrioSend(n) ==
    /\ calls < MaxTrioCalls
    /\ CallSendMessage(n, 3)

NextTrio ==
    \E n \in Machines :
        \/ \E s \in Machines : HandleClientLine(n, s)
        \/ RunCheck(n)
        \/ Tick(n)
        \/ TrioSend(n)

SpecTrio == InitTrio /\ [][NextTrio]_vars

\* The life of a cluster from construction: server threads, connect phases,
\* schedulers starting and stopping, shutdown.
InitLife ==
    /\ \E connect_peers \in [{1, 2} -> BOOLEAN] :
           InitCluster({1, 2}, connect_peers)
    /\ InitFnIdle

NextLife ==
    \E n \in Machines :
        \/ ServerStart(n)
        \/ ServerCheck(n)
        \/ ServerAccept(n)
        \/ \E s \in Machines : HandleClientEof(n, s)
        \/ ConnectStart(n)
        \/ ConnectCheck(n)
        \/ ConnectAttempt(n)
        \/ RunStart(n)
        \/ RunCheck(n)
        \/ Shutdown(n)

SpecLife == InitLife /\ [][NextLife]_vars

\* One machine alone in its configuration, from construction.
InitSolo ==
    /\ \E connect_peers \in [{1} -> BOOLEAN] : InitCluster({1}, connect_peers)
    /\ InitFnIdle

NextSolo ==
    \E n \in Machines :
        \/ ServerStart(n)
        \/ ServerCheck(n)
        \/ ServerAccept(n)
        \/ ConnectStart(n)
        \/ ConnectCheck(n)
        \/ RunStart(n)
        \/ RunCheck(n)
        \/ Tick(n)
        \/ Shutdown(n)

SpecSolo == InitSolo /\ [][NextSolo]_vars

\* ------------------------------------------- the clock update on its own

\* update_logical_clock_on_receive applied to every pair of arguments up to
\* MaxArg, and then again to its own result and a new message clock.
InitFn ==
    /\ InitCluster({1}, [n \in {1} |-> FALSE])
    /\ fn_pc = "in"
    /\ fn_local \in 0..MaxArg
    /\ fn_msg \in 0..MaxArg
    /\ fn_result = 0

FnApply ==
    /\ fn_pc = "in"
    /\ fn_result' = update_logical_clock_on_receive(fn_local, fn_msg)
    /\ fn_pc' = "out"
    /\ UNCHANGED <<fn_local, fn_msg, config, node_vars, thread_vars, net_vars,
                   hist_vars, frames, closing>>

FnAgain ==
    /\ fn_pc = "out"
    /\ fn_result <= MaxArg
    /\ \E m \in 0..MaxArg :
          /\ fn_local' = fn_result
          /\ fn_msg' = m
    /\ fn_pc' = "in"
    /\ UNCHANGED <<fn_result, config, node_vars, thread_vars, net_vars,
                   hist_vars, frames, closing>>

NextFn == FnApply \/ FnAgain

SpecFn == InitFn /\ [][NextFn]_vars

\* ------------------------------------------------- stopping, with fairness

\* Machine 1 of a cluster of two, from construction (its listener not yet
\* started) or in operation (listening, connected to machine 2, its scheduler
\* running); machine 2 is its peer and takes no step. The listener thread and
\* the scheduler thread of machine 1 are scheduled fairly; run() and
\* shutdown() are called whenever the caller chooses.
InitStop ==
    /\ \/ InitCluster({1, 2}, [n \in {1, 2} |-> FALSE])
       \/ InitStarted({1, 2}, {1, 2}, {1})
    /\ InitFnIdle

ListenerStep(n) == ServerStart(n) \/ ServerCheck(n) \/ ServerAccept(n)

SchedulerStep(n) == RunCheck(n) \/ TickToStop(n)

NextStop ==
    \/ ServerStart(1)
    \/ ServerCheck(1)
    \/ ServerAccept(1)
    \/ RunStart(1)
    \/ RunCheck(1)
    \/ TickToStop(1)
    \/ Shutdown(1)

SpecStop ==
    /\ InitStop
    /\ [][NextStop]_vars
    /\ WF_vars(ListenerStep(1))
    /\ WF_vars(SchedulerStep(1))

\* ------------------------------------------- the connect phase called again

\* Two listening machines built with connect_peers=False: connect_to_peers is
\* called on them, and called again, with the listeners accepting and
\* shutdown possible at any moment.
InitAgain ==
    /\ InitStarted({1, 2}, {}, {})
    /\ InitFnIdle

NextAgain ==
    \E n \in Machines :
        \/ ServerCheck(n)
        \/ ServerAccept(n)
        \/ ConnectStart(n)
        \/ ConnectAgain(n)
        \/ ConnectCheck(n)
        \/ ConnectAttempt(n)
        \/ \E p \in Machines : Finalize(n, p)
        \/ Shutdown(n)

SpecAgain == InitAgain /\ [][NextAgain]_vars

\* --------------------------------------------- the connect phase, with fairness

\* Three machines built with connect_peers=False. connect_to_peers is called
\* on machine 1 (on a thread of its own, so that shutdown can be called
\* meanwhile); machines 2 and 3 run their listeners and may be shut down. The
\* listener threads and the connecting thread are scheduled fairly.
InitJoin ==
    /\ InitCluster({1, 2, 3}, [n \in {1, 2, 3} |-> FALSE])
    /\ InitFnIdle

ConnectStep(n) == ConnectCheck(n) \/ ConnectAttempt(n)

NextJoin ==
    \/ \E n \in Machines :
          \/ ServerStart(n)
          \/ ServerCheck(n)
          \/ ServerAccept(n)
          \/ Shutdown(n)
    \/ ConnectStart(1)
    \/ ConnectCheck(1)
    \/ ConnectAttempt(1)

SpecJoin ==
    /\ InitJoin
    /\ [][NextJoin]_vars
    /\ \A n \in Machines : WF_vars(ListenerStep(n))
    /\ WF_vars(ConnectStep(1))

\* ------------------------------------------------- lines of any client

\* Lines a client of the listener may write on a connection (any program can
\* connect to the port): the test's "clock:42", text without the prefix, a
\* prefix in capitals, payloads that are no integer, an empty payload, an
\* empty line, a signed payload, blanks around the text, and two messages
\* that lost the newline between them.
SampleLines ==
    { ClockPrefix \o <<"4", "2", "\n">>,
      <<"h", "i", "\n">>,
      <<"C", "l", "o", "c", "k", ":", "5", "\n">>,
      ClockPrefix \o <<"a", "b", "\n">>,
      ClockPrefix \o <<"7", "x", "\n">>,
      ClockPrefix \o <<"\n">>,
      <<"\n">>,
      ClockPrefix \o <<"-", "3", "\n">>,
      <<" ">> \o ClockPrefix \o <<" ", "8", " ", "\n">>,
      ClockPrefix \o <<"1">> \o ClockPrefix \o <<"2", "\n">> }

\* A client writes one line on the connection from s that r reads.
InjectLine(r, s, line) ==
    /\ r \in config
    /\ s \in config
    /\ conn[s][r] = "reading"
    /\ calls < MaxLines
    /\ stream' = [stream EXCEPT ![s][r] = Append(@, line)]
    /\ calls' = calls + 1
    /\ last' = Ev("client_write", r, s, 0, FALSE, "none")
    /\ UNCHANGED <<config, node_vars, thread_vars, conn, delivered, dropped,
                   ticks, fn_vars, frames, closing>>

\* Machine 1 reading the connection from machine 2, on which any client lines
\* arrive; machine 1 is driven by direct calls of process_message_queue.
InitReader ==
    /\ InitStarted({1, 2}, {1, 2}, {})
    /\ InitFnIdle

ReaderDrain(n) ==
    /\ msg_queue[n] # <<>>
    /\ CallProcessMessageQueue(n)

NextReader ==
    \/ \E line \in SampleLines : InjectLine(1, 2, line)
    \/ HandleClientLine(1, 2)
    \/ ReaderDrain(1)

SpecReader == InitReader /\ [][NextReader]_vars

\* ------------------------------------------- broadcasts on a three-machine cluster

\* Three machines built with connect_peers=False, their listeners accepting.
\* run() of machine 1 is started before connect_to_peers is called on it (as
\* setUp of testrun.py does), so that a tick may find none, one or both of
\* its peers connected; machines 2 and 3 accept and read what machine 1 sends.
InitCast ==
    /\ InitStarted({1, 2, 3}, {}, {1})
    /\ InitFnIdle

NextCast ==
    \/ ConnectStart(1)
    \/ ConnectCheck(1)
    \/ ConnectAttempt(1)
    \/ RunCheck(1)
    \/ Tick(1)
    \/ \E r \in {2, 3} :
          \/ ServerCheck(r)
          \/ ServerAccept(r)
          \/ HandleClientLine(r, 1)

SpecCast == InitCast /\ [][NextCast]_vars

\* ------------------------------ two threads in one machine, statement by statement

\* Machines 1 and 2 are connected and the scheduler of machine 1 runs on its
\* own thread (testrun.py 108-113). The thread of the test calls
\* send_message("2") and process_message_queue() on machine 1 meanwhile
\* (testrun.py 146-152); nothing serialises the two threads, so the reads and
\* writes of self.logical_clock made by the two calls interleave in any
\* order. Machine 2 sends to machine 1 by direct calls.

\* The peer machine 1 sends to (its only peer).
RacePeer == 2

\* run: process_message_queue() is entered (and finds a message or not), and
\* when it returns False an action is drawn: 1..3 send (with one peer every
\* send goes to it), 4..10 an internal event.
SchedBegin ==
    /\ run_pc[1] = "tick"
    /\ frames["sched"].pc = "idle"
    /\ TotalTicks < MaxTicks
    /\ IF msg_queue[1] # <<>>
       THEN /\ frames' = [frames EXCEPT !["sched"] =
                             [IdleFrame EXCEPT !.pc = "get", !.op = "drain"]]
            /\ last' = Ev("tick_begin", 1, 0, 0, TRUE, "none")
       ELSE \E event_choice \in 1..10 :
               /\ frames' = [frames EXCEPT !["sched"] =
                                [IdleFrame EXCEPT
                                    !.pc = "load",
                                    !.op = IF event_choice <= 3 THEN "send"
                                           ELSE "internal"]]
               /\ last' = Ev("tick_begin", 1, 0,
                             IF event_choice > 3 THEN 4 ELSE event_choice,
                             FALSE, "none")
    /\ ticks' = [ticks EXCEPT ![1] = @ + 1]
    /\ UNCHANGED <<config, node_vars, thread_vars, net_vars, calls, fn_vars, closing>>

\* self.vm1.send_message("2") on the thread of the test: the connection is
\* there, the call goes on to the increment.
TestSendMessage ==
    /\ frames["test"].pc = "idle"
    /\ calls < MaxRaceCalls
    /\ RacePeer \in DOMAIN peer_sockets[1]
    /\ frames' = [frames EXCEPT !["test"] =
                     [IdleFrame EXCEPT !.pc = "load", !.op = "send"]]
    /\ calls' = calls + 1
    /\ last' = Ev("send_message", 1, RacePeer, 0, FALSE, "none")
    /\ UNCHANGED <<config, node_vars, thread_vars, net_vars, ticks, fn_vars, closing>>

\* process_message_queue() on the thread of the test: the test of
\* msg_queue.empty(); the call returns False on an empty queue.
TestProcessMessageQueue ==
    /\ frames["test"].pc = "idle"
    /\ calls < MaxRaceCalls
    /\ frames' = [frames EXCEPT !["test"] =
                     IF msg_queue[1] # <<>>
                     THEN [IdleFrame EXCEPT !.pc = "get", !.op = "drain"]
                     ELSE IdleFrame]
    /\ calls' = calls + 1
    /\ last' = Ev("process_message_queue", 1, 0, 0, msg_queue[1] # <<>>, "none")
    /\ UNCHANGED <<config, node_vars, thread_vars, net_vars, ticks, fn_vars, closing>>

\* message_clock = self.msg_queue.get(): blocks while the queue is empty.
FrameGet(t) ==
    /\ frames[t].pc = "get"
    /\ msg_queue[1] # <<>>
    /\ frames' = [frames EXCEPT ![t].pc = "load",
                                ![t].message = Head(msg_queue[1])]
    /\ msg_queue' = [msg_queue EXCEPT ![1] = Tail(@)]
    /\ q_from' = [q_from EXCEPT ![1] = Tail(@)]
    /\ delivered' = [delivered EXCEPT ![Head(q_from[1])][1] =
                                          Append(@, Head(msg_queue[1]))]
    /\ last' = Ev("get", 1, 0, 0, TRUE, "none")
    /\ UNCHANGED <<config, logical_clock, running, server_socket, peer_sockets,
                   log, thread_vars, conn, stream, dropped, ticks, calls,
                   fn_vars, closing>>

\* The read of self.logical_clock in `self.logical_clock += 1` and in the
\* argument of update_logical_clock_on_receive.
FrameLoad(t) ==
    /\ frames[t].pc = "load"
    /\ frames' = [frames EXCEPT ![t].pc = "store",
                                ![t].local = logical_clock[1]]
    /\ last' = Ev("load", 1, 0, 0, FALSE, "none")
    /\ UNCHANGED <<config, node_vars, thread_vars, net_vars, ticks, calls,
                   fn_vars, closing>>

\* The assignment to self.logical_clock, of the value computed from what was
\* read.
FrameStore(t) ==
    /\ frames[t].pc = "store"
    /\ logical_clock' = [logical_clock EXCEPT ![1] =
                            IF frames[t].op = "drain"
                            THEN update_logical_clock_on_receive(
                                     frames[t].local, frames[t].message)
                            ELSE frames[t].local + 1]
    /\ frames' = [frames EXCEPT ![t].pc =
                     IF frames[t].op = "send" THEN "format" ELSE "log"]
    /\ last' = Ev("store", 1, 0, 0, FALSE, "none")
    /\ UNCHANGED <<config, msg_queue, q_from, running, server_socket,
                   peer_sockets, log, thread_vars, net_vars, ticks, calls,
                   fn_vars, closing>>

\* message = f"clock:{self.logical_clock}\n": the clock is read again.
FrameFormat(t) ==
    /\ frames[t].pc = "format"
    /\ frames' = [frames EXCEPT ![t].pc = "write",
                                ![t].message = logical_clock[1]]
    /\ last' = Ev("format", 1, 0, 0, FALSE, "none")
    /\ UNCHANGED <<config, node_vars, thread_vars, net_vars, ticks, calls,
                   fn_vars, closing>>

\* self.peer_sockets[peer_id].sendall(message.encode())
FrameWrite(t) ==
    /\ frames[t].pc = "write"
    /\ ~sendall_fails(peer_sockets[1][RacePeer])
    /\ stream' = [stream EXCEPT ![1][RacePeer] =
                     Append(@, FormatMessage(frames[t].message))]
    /\ frames' = [frames EXCEPT ![t].pc = "log"]
    /\ last' = Ev("sendall", 1, RacePeer, 0, FALSE, "none")
    /\ UNCHANGED <<config, node_vars, thread_vars, conn, delivered, dropped,
                   ticks, calls, fn_vars, closing>>

\* self.log_event(...): the entry is formatted from self.logical_clock as it
\* is when log_event runs; the call returns, and an iteration of run is over.
FrameLog(t) ==
    /\ frames[t].pc = "log"
    /\ log' = [log EXCEPT ![1] =
                  IF frames[t].op = "send"
                  THEN log_event(Local(1), "SEND", RacePeer, 0, 0).log
                  ELSE IF frames[t].op = "drain"
                  THEN log_event(Local(1), "RECEIVE", 0, frames[t].message,
                                 Len(msg_queue[1])).log
                  ELSE log_event(Local(1), "INTERNAL", 0, 0, 0).log]
    /\ frames' = [frames EXCEPT ![t] = IdleFrame]
    /\ run_pc' = IF t = "sched" THEN [run_pc EXCEPT ![1] = "top"] ELSE run_pc
    /\ last' = Ev("log_event", 1, 0, 0, FALSE, "none")
    /\ UNCHANGED <<config, logical_clock, msg_queue, q_from, running,
                   server_socket, peer_sockets, srv_pc, cp_pc, cp_todo,
                   in_ctor, net_vars, ticks, calls, fn_vars, closing>>

\* Machine 2 sends its clock to machine 1.
RacePeerSend ==
    /\ calls < MaxRaceCalls
    /\ CallSendMessage(RacePeer, 1)

InitRace ==
    /\ InitStarted({1, 2}, {1, 2}, {1})
    /\ InitFnIdle

NextRace ==
    \/ RunCheck(1)
    \/ SchedBegin
    \/ TestSendMessage
    \/ TestProcessMessageQueue
    \/ \E t \in Threads :
          \/ FrameGet(t)
          \/ FrameLoad(t)
          \/ FrameStore(t)
          \/ FrameFormat(t)
          \/ FrameWrite(t)
          \/ FrameLog(t)
    \/ RacePeerSend
    \/ HandleClientLine(1, RacePeer)

SpecRace == InitRace /\ [][NextRace]_vars

\* ---------------------------------- shutdown while the connect phase is under way

\* Three machines built with connect_peers=False, their listeners accepting.
\* connect_to_peers runs on machine 1 on a thread of its own while shutdown is
\* called on it from another thread; the two calls interleave statement by
\* statement. Machines 2 and 3 accept, and may be shut down.

\* self.running = False
ShutdownFlag(n) ==
    /\ n \in config
    /\ ~in_ctor[n]
    /\ closing[n].pc = "idle"
    /\ running' = [running EXCEPT ![n] = FALSE]
    /\ closing' = [closing EXCEPT ![n].pc = "server"]
    /\ last' = Ev("shutdown", n, 0, 0, FALSE, "none")
    /\ UNCHANGED <<config, logical_clock, msg_queue, q_from, server_socket,
                   peer_sockets, log, thread_vars, net_vars, ticks, calls,
                   fn_vars, frames>>

\* try: self.server_socket.close() except Exception: pass
ShutdownServer(n) ==
    /\ n \in config
    /\ closing[n].pc = "server"
    /\ server_socket' = [server_socket EXCEPT ![n] = close_server_socket(@).sock]
    /\ closing' = [closing EXCEPT ![n].pc = "iter"]
    /\ last' = Ev("shutdown_server", n, 0, 0, FALSE,
                  close_server_socket(server_socket[n]).exc)
    /\ UNCHANGED <<config, logical_clock, msg_queue, q_from, running,
                   peer_sockets, log, thread_vars, net_vars, ticks, calls,
                   fn_vars, frames>>

\* for sock in self.peer_sockets.values(): the iterator is created and
\* remembers the size of the dictionary; the keys are visited in the order
\* they were inserted, which is the order connect_to_peers goes through.
ShutdownIter(n) ==
    /\ n \in config
    /\ closing[n].pc = "iter"
    /\ closing' = [closing EXCEPT
                      ![n].pc = "loop",
                      ![n].used = Cardinality(DOMAIN peer_sockets[n]),
                      ![n].todo = SortedSeq(DOMAIN peer_sockets[n])]
    /\ last' = Ev("shutdown_iter", n, 0, 0, FALSE, "none")
    /\ UNCHANGED <<config, node_vars, thread_vars, net_vars, ticks, calls,
                   fn_vars, frames>>

\* One step of the for loop: the iterator raises RuntimeError (dictionary
\* changed size during iteration) when the dictionary has another size than
\* when the iteration began, and the for statement is outside every try, so
\* the exception leaves shutdown; otherwise the loop ends, or the next socket
\* is closed (an exception of close is swallowed).
ShutdownLoop(n) ==
    /\ n \in config
    /\ closing[n].pc = "loop"
    /\ IF Cardinality(DOMAIN peer_sockets[n]) # closing[n].used
       THEN /\ closing' = [closing EXCEPT ![n].pc = "raised",
                                          ![n].exc = "RuntimeError"]
            /\ last' = Ev("shutdown_loop", n, 0, 0, FALSE, "RuntimeError")
            /\ UNCHANGED peer_sockets
       ELSE IF closing[n].todo = <<>>
       THEN /\ closing' = [closing EXCEPT ![n].pc = "done"]
            /\ last' = Ev("shutdown_loop", n, 0, 0, FALSE, "none")
            /\ UNCHANGED peer_sockets
       ELSE /\ peer_sockets' = [peer_sockets EXCEPT
                                   ![n][Head(closing[n].todo)] = "closed"]
            /\ closing' = [closing EXCEPT ![n].todo = Tail(@)]
            /\ last' = Ev("shutdown_loop", n, Head(closing[n].todo), 0, TRUE,
                          swallowed("none"))
    /\ UNCHANGED <<config, logical_clock, msg_queue, q_from, running,
                   server_socket, log, thread_vars, net_vars, ticks, calls,
                   fn_vars, frames>>

InitHalt ==
    /\ InitStarted({1, 2, 3}, {}, {})
    /\ InitFnIdle

NextHalt ==
    \/ ConnectStart(1)
    \/ ConnectCheck(1)
    \/ ConnectAttempt(1)
    \/ ShutdownFlag(1)
    \/ ShutdownServer(1)
    \/ ShutdownIter(1)
    \/ ShutdownLoop(1)
    \/ \E r \in {2, 3} :
          \/ ServerCheck(r)
          \/ ServerAccept(r)
          \/ Shutdown(r)

SpecHalt == InitHalt /\ [][NextHalt]_vars

\* ------------------------------------------------- start-up of the whole cluster

\* Every machine of the configuration is launched as run_machine.py does:
\* VirtualMachine(machine_id) with connect_peers=True, then vm.run(). The
\* constructor of each has started the listener thread and goes on into
\* connect_to_peers; the processes run at any relative speed (start_all.py
\* launches them half a second apart), and the operating system schedules
\* every thread fairly.
InitBoot ==
    /\ InitCluster(Machines, [n \in Machines |-> TRUE])
    /\ InitFnIdle

\* The main thread of a process: the constructor's connect phase, then the
\* call of run, which is at the top of its loop.
MainStep(n) == ConnectCheck(n) \/ ConnectAttempt(n) \/ RunStart(n)

NextBoot ==
    \E n \in Machines :
        \/ ServerStart(n)
        \/ ServerCheck(n)
        \/ ServerAccept(n)
        \/ ConnectCheck(n)
        \/ ConnectAttempt(n)
        \/ RunStart(n)

SpecBoot ==
    /\ InitBoot
    /\ [][NextBoot]_vars
    /\ \A n \in Machines : WF_vars(ListenerStep(n))
    /\ \A n \in Machines : WF_vars(MainStep(n))

\* --------------------------------------- a scheduler that keeps ticking, fairly

\* An iteration of run's loop on a machine that is not stopped: the bound on
\* ticks cuts short only the iterations that find the queue empty, so the
\* scheduler keeps ticking as long as a message is queued.
TickToDrain(n) ==
    /\ TotalTicks < MaxDrainTicks \/ msg_queue[n] # <<>>
    /\ TickBody(n)

\* The scheduler thread of a machine on which shutdown is not called.
DrainStep(n) == RunCheck(n) \/ TickToDrain(n)

\* The cluster of SpecTrio: machines 1 and 2 send to machine 3, whose readers
\* enqueue and whose scheduler, scheduled fairly, ticks; no machine is shut
\* down.
\* send_message("3") called directly on machine 1 or 2.
DrainSend(n) ==
    /\ calls < MaxDrainSends
    /\ CallSendMessage(n, 3)

NextDrain ==
    \/ \E s \in {1, 2} : HandleClientLine(3, s)
    \/ RunCheck(3)
    \/ TickToDrain(3)
    \/ \E n \in {1, 2} : DrainSend(n)

SpecDrain ==
    /\ InitTrio
    /\ [][NextDrain]_vars
    /\ WF_vars(DrainStep(3))

\* ------------------------------------------------------------------ claims

\* Everything but the history of the last step.
program_vars == <<config, node_vars, thread_vars, net_vars, ticks, calls>>

\* The entries a step appends to the log of machine n.
NewEntries(n) == SubSeq(log'[n], Len(log[n]) + 1, Len(log'[n]))

\* The clock before the i-th entry of `entries` was logged, c0 being the clock
\* before the first (every mutation of the clock is followed by a log entry).
ClockBefore(entries, c0, i) == IF i = 1 THEN c0 ELSE entries[i - 1].clock

\* C1: the logical clock of a machine never decreases; every mutation of it
\* is +1 (INTERNAL, SEND, or the ERROR of a send whose write failed) or the
\* jump to max(local, received) + 1 of a RECEIVE of the head of the queue; an
\* ERROR for a peer without connection and every step that logs nothing leave
\* it unchanged, and only a tick, send_message or process_message_queue of
\* that machine changes it.
C1_ClockMutations ==
    [][\A n \in config :
          LET new == NewEntries(n)
          IN  /\ SubSeq(log'[n], 1, Len(log[n])) = log[n]
              /\ logical_clock'[n] >= logical_clock[n]
              /\ logical_clock'[n] =
                     IF new = <<>> THEN logical_clock[n] ELSE new[Len(new)].clock
              /\ logical_clock'[n] # logical_clock[n] =>
                     /\ last'.node = n
                     /\ last'.op \in {"tick", "send_message", "process_message_queue"}
              /\ \A i \in 1..Len(new) :
                    LET before == ClockBefore(new, logical_clock[n], i)
                        e == new[i]
                    IN  \/ /\ e.type \in {"INTERNAL", "SEND"}
                           /\ e.clock = before + 1
                        \/ /\ e.type = "RECEIVE"
                           /\ Len(new) = 1
                           /\ e.msg = Head(msg_queue[n])
                           /\ e.clock = Max(before, e.msg) + 1
                        \/ /\ e.type = "ERROR"
                           /\ e.peer \in DOMAIN peer_sockets[n]
                           /\ e.clock = before + 1
                        \/ /\ e.type = "ERROR"
                           /\ e.peer \notin DOMAIN peer_sockets[n]
                           /\ e.clock = before
      ]_vars

\* A machine has logged a RECEIVE that raised its clock by two or more, and
\* has been shut down since.
C1_Witness ==
    \E n \in config : \E i \in DOMAIN log[n] :
        /\ log[n][i].type = "RECEIVE"
        /\ log[n][i].clock >= ClockBefore(log[n], 0, i) + 2
        /\ ~running[n]

\* A step in which machine b takes an entry off its queue.
Dequeues(b) == Len(msg_queue'[b]) < Len(msg_queue[b])

\* C2: when machine b dequeues a value m that came over the connection of
\* machine a, a has logged a SEND to b with clock m, made while its clock was
\* m - 1, and the clock of b becomes max(B_before, m) + 1, which is greater
\* than the clock m of the send.
C2_LamportCondition ==
    [][\A b \in config :
          Dequeues(b) =>
              LET m == Head(msg_queue[b])
                  a == Head(q_from[b])
              IN  /\ a \in peers(b)
                  /\ \E i \in DOMAIN log[a] :
                        /\ log[a][i].type = "SEND"
                        /\ log[a][i].peer = b
                        /\ log[a][i].clock = m
                        /\ ClockBefore(log[a], 0, i) = m - 1
                  /\ logical_clock'[b] =
                         (IF logical_clock[b] >= m THEN logical_clock[b] ELSE m) + 1
                  /\ logical_clock'[b] > m
      ]_vars

\* A machine has received a message whose clock was behind its own: its
\* RECEIVE entry has a clock more than one past the message clock.
C2_Witness ==
    \E b \in config : \E i \in DOMAIN log[b] :
        /\ log[b][i].type = "RECEIVE"
        /\ log[b][i].msg >= 1
        /\ log[b][i].clock > log[b][i].msg + 1

\* C3: for all non-negative local and msg, the clock update returns
\* max(local, msg) + 1, which is greater than both (also when they are equal).
C3_UpdateIsMaxPlusOne ==
    fn_pc = "out" =>
        /\ fn_result = (IF fn_local >= fn_msg THEN fn_local ELSE fn_msg) + 1
        /\ fn_result > fn_local
        /\ fn_result > fn_msg

\* The update has been applied to two equal clocks.
C3_Witness ==
    /\ fn_pc = "out"
    /\ fn_local = fn_msg
    /\ fn_local > 0
    /\ fn_result = fn_local + 1

\* The peer a tick sends to when it draws 1 or 2.
TickTarget(n, draw) ==
    LET ps == sorted_peers(n)
    IN  IF draw = 2 /\ Len(ps) > 1 THEN ps[2] ELSE ps[1]

\* The step is one call send_message(p) of machine n: a direct call, or the
\* call made by a tick that processed no message and drew 1 or 2.
SendsTo(n, p) ==
    /\ last'.node = n
    /\ \/ last'.op = "send_message" /\ last'.peer = p
       \/ /\ last'.op = "tick"
          /\ last'.draw \in {1, 2}
          /\ last'.exc = "none"
          /\ p = TickTarget(n, last'.draw)

\* line is the text "clock:<v>\n", <v> the decimal digits of v.
IsClockLine(line, v) ==
    /\ Len(line) >= Len(ClockPrefix) + 2
    /\ SubSeq(line, 1, Len(ClockPrefix)) = ClockPrefix
    /\ line[Len(line)] = "\n"
    /\ LET digits == SubSeq(line, Len(ClockPrefix) + 1, Len(line) - 1)
       IN  /\ \A i \in DOMAIN digits : IsDigit(digits[i])
           /\ Len(digits) > 1 => digits[1] # "0"
           /\ DigitsValue(digits, 0) = v

SendEntry(c, p) == [type |-> "SEND", clock |-> c, peer |-> p, msg |-> 0, qlen |-> 0]

ErrorEntry(c, p) == [type |-> "ERROR", clock |-> c, peer |-> p, msg |-> 0, qlen |-> 0]

ReceiveEntry(c, m, q) ==
    [type |-> "RECEIVE", clock |-> c, peer |-> 0, msg |-> m, qlen |-> q]

\* C4: send_message(p) on a machine whose connection to p is established
\* increments the clock by exactly 1, writes exactly one message
\* "clock:<v>\n", v the new clock, on the connection to p and on no other, and
\* logs one SEND entry with the new clock.
C4_SendToConnectedPeer ==
    [][\A n \in config : \A p \in Machines :
          ( /\ SendsTo(n, p)
            /\ p \in DOMAIN peer_sockets[n]
            /\ peer_sockets[n][p] = "open" ) =>
              /\ logical_clock'[n] = logical_clock[n] + 1
              /\ Len(stream'[n][p]) = Len(stream[n][p]) + 1
              /\ SubSeq(stream'[n][p], 1, Len(stream[n][p])) = stream[n][p]
              /\ IsClockLine(stream'[n][p][Len(stream'[n][p])], logical_clock'[n])
              /\ \A a \in config : \A b \in DOMAIN stream[a] :
                    <<a, b>> # <<n, p>> => stream'[a][b] = stream[a][b]
              /\ log'[n] = Append(log[n], SendEntry(logical_clock'[n], p))
      ]_vars

\* The last step was a direct send_message on an established connection, made
\* by a machine whose clock had already advanced: the message written carries
\* a clock of 2 or more.
C4_Witness ==
    /\ last.op = "send_message"
    /\ last.node \in config
    /\ last.peer \in DOMAIN peer_sockets[last.node]
    /\ peer_sockets[last.node][last.peer] = "open"
    /\ log[last.node] # <<>>
    /\ log[last.node][Len(log[last.node])] = SendEntry(logical_clock[last.node], last.peer)
    /\ stream[last.node][last.peer] # <<>>
    /\ logical_clock[last.node] >= 2

\* C5: send_message(p) on a machine that holds no connection for p leaves the
\* clock unchanged, writes nothing on any connection, logs exactly one ERROR
\* entry and changes nothing else of the machines.
C5_SendToUnconnectedPeer ==
    [][\A n \in config : \A p \in Machines :
          ( SendsTo(n, p) /\ p \notin DOMAIN peer_sockets[n] ) =>
              /\ logical_clock' = logical_clock
              /\ stream' = stream
              /\ log'[n] = Append(log[n], ErrorEntry(logical_clock[n], p))
              /\ \A o \in config \ {n} : log'[o] = log[o]
              /\ UNCHANGED <<msg_queue, q_from, running, server_socket,
                             peer_sockets, conn, delivered>>
      ]_vars

\* The last step was a send_message to a configured peer on a machine that has
\* not run its connect phase; it logged the ERROR at the unchanged clock.
C5_Witness ==
    /\ last.op = "send_message"
    /\ last.node \in config
    /\ last.peer \notin DOMAIN peer_sockets[last.node]
    /\ last.peer \in peers(last.node)
    /\ log[last.node] # <<>>
    /\ log[last.node][Len(log[last.node])] = ErrorEntry(logical_clock[last.node], last.peer)

\* C6: process_message_queue, called directly or by a tick, on an empty queue
\* returns False and changes neither the clock, the queue nor the log; on a
\* non-empty queue it removes exactly the oldest entry, sets the clock to
\* max(local, received) + 1, logs one RECEIVE entry and returns True (and the
\* tick does nothing else).
C6_ProcessMessageQueue ==
    [][\A n \in config :
          /\ ( last'.node = n /\ last'.op \in {"process_message_queue", "tick"}
               /\ msg_queue[n] # <<>> ) =>
                 LET received == Head(msg_queue[n])
                     c == (IF logical_clock[n] >= received
                           THEN logical_clock[n] ELSE received) + 1
                 IN  /\ last'.ret
                     /\ msg_queue'[n] = Tail(msg_queue[n])
                     /\ logical_clock'[n] = c
                     /\ log'[n] = Append(log[n],
                                     ReceiveEntry(c, received, Len(msg_queue[n]) - 1))
                     /\ stream' = stream
          /\ ( last'.node = n /\ last'.op \in {"process_message_queue", "tick"}
               /\ msg_queue[n] = <<>> ) =>
                 /\ ~last'.ret
                 /\ msg_queue'[n] = <<>>
          /\ ( last'.node = n /\ last'.op = "process_message_queue"
               /\ msg_queue[n] = <<>> ) =>
                 /\ logical_clock'[n] = logical_clock[n]
                 /\ log'[n] = log[n]
      ]_vars

\* A direct call has just found the queue empty on a machine that had taken a
\* message from a queue of two or more before.
C6_Witness ==
    /\ last.op = "process_message_queue"
    /\ ~last.ret
    /\ \E i \in DOMAIN log[last.node] :
          /\ log[last.node][i].type = "RECEIVE"
          /\ log[last.node][i].qlen >= 1

\* The clocks of the SEND entries for peer r in a log, in the order logged.
RECURSIVE SentValues(_, _)
SentValues(entries, r) ==
    IF entries = <<>> THEN <<>>
    ELSE (IF Head(entries).type = "SEND" /\ Head(entries).peer = r
          THEN <<Head(entries).clock>> ELSE <<>>) \o SentValues(Tail(entries), r)

\* The entries of a queue that came over the connection of s, in queue order.
RECURSIVE QueuedFrom(_, _, _)
QueuedFrom(queue, from, s) ==
    IF queue = <<>> THEN <<>>
    ELSE (IF Head(from) = s THEN <<Head(queue)>> ELSE <<>>)
             \o QueuedFrom(Tail(queue), Tail(from), s)

\* The values the reader will enqueue for the lines still in a stream.
RECURSIVE ParsedVals(_)
ParsedVals(lines) ==
    IF lines = <<>> THEN <<>>
    ELSE (IF ParseLine(Head(lines)).put THEN <<ParseLine(Head(lines)).val>> ELSE <<>>)
             \o ParsedVals(Tail(lines))

\* C7: for every connection from s to r, the values r has dequeued from it,
\* followed by those waiting in r's queue that came from it, followed by those
\* still in the stream, are exactly the clocks of the SENDs of s to r in the
\* order sent (none lost, duplicated or reordered), whatever the readers of
\* the other connections put on the same queue in between.
C7_FifoPerConnection ==
    \A s \in config : \A r \in config \ {s} :
        delivered[s][r] \o QueuedFrom(msg_queue[r], q_from[r], s)
                        \o ParsedVals(stream[s][r])
            = SentValues(log[s], r)

\* The scheduler of machine 3 has dequeued two values of one connection while
\* a value of the other connection sat in the queue between them, and a third
\* value of the first connection is waiting.
C7_Witness ==
    \E s \in {1, 2} : \E s2 \in {1, 2} \ {s} :
        /\ Len(delivered[s][3]) >= 1
        /\ Len(delivered[s2][3]) >= 1
        /\ ticks[3] >= 2
        /\ \E i \in DOMAIN q_from[3] : q_from[3][i] = s
        /\ Len(SentValues(log[s], 3)) >= 2

\* C8: a call of shutdown raises no error, leaves the stop flag set
\* (running = False) and every socket of the peer-connection map closed, and
\* a call that follows another shutdown of the same machine changes nothing.
C8_ShutdownIdempotent ==
    [][\A n \in config :
          ( last'.op = "shutdown" /\ last'.node = n ) =>
              /\ last'.exc = "none"
              /\ ~running'[n]
              /\ DOMAIN peer_sockets'[n] = DOMAIN peer_sockets[n]
              /\ \A p \in DOMAIN peer_sockets'[n] : peer_sockets'[n][p] = "closed"
              /\ last'.ret => UNCHANGED program_vars
      ]_vars

\* shutdown has just been called a second time on a machine that holds a
\* connection to its peer and whose listener is closed.
C8_Witness ==
    /\ last.op = "shutdown"
    /\ last.ret
    /\ DOMAIN peer_sockets[last.node] # {}
    /\ server_socket[last.node] = "closed"

\* C9: once shutdown has been called on a machine its listening socket is not
\* open, in every interleaving of shutdown with the server thread.
C9_ListenerClosedAfterShutdown ==
    \A n \in config : ~running[n] => server_socket[n] # "open"

\* C10: a machine with zero peers whose scheduler has run at least one tick
\* and has ended has logged at least one INTERNAL entry and no SEND or RECEIVE
\* entry, whatever the ticks drew.
C10_ZeroPeersInternalOnly ==
    \A n \in config :
        ( peers(n) = {} /\ ticks[n] >= 1 /\ run_pc[n] \in {"done", "crashed"} ) =>
            /\ \E i \in DOMAIN log[n] : log[n][i].type = "INTERNAL"
            /\ \A i \in DOMAIN log[n] : log[n][i].type \notin {"SEND", "RECEIVE"}

\* C11: no tick is fatal: whatever the peer set of a machine and whatever a
\* tick draws, the scheduler loop never ends by an exception raised inside a
\* tick (it is left only by the test of the stop flag).
C11_NoTickFatal ==
    \A n \in config : run_pc[n] # "crashed"

\* C12: send_message(p) on a machine whose socket for p no longer takes a
\* write (it was closed by shutdown) raises the clock by exactly 1, logs
\* exactly one ERROR entry at the raised clock and no SEND entry, writes
\* nothing, raises nothing to its caller (a tick goes on to the next
\* iteration), and leaves the sockets and connections as they were (no retry,
\* no new connection).
C12_FailedSend ==
    [][\A n \in config : \A p \in Machines :
          ( /\ SendsTo(n, p)
            /\ p \in DOMAIN peer_sockets[n]
            /\ peer_sockets[n][p] # "open" ) =>
              /\ logical_clock'[n] = logical_clock[n] + 1
              /\ log'[n] = Append(log[n], ErrorEntry(logical_clock[n] + 1, p))
              /\ stream' = stream
              /\ last'.exc = "none"
              /\ last'.op = "tick" => run_pc'[n] = "top"
              /\ UNCHANGED <<peer_sockets, conn, server_socket, running,
                             msg_queue>>
      ]_vars

\* A tick that was under way when shutdown closed the sockets has just drawn
\* a send: the ERROR is logged at the raised clock and the loop goes on.
C12_Witness ==
    /\ last.op = "tick"
    /\ last.draw \in {1, 2}
    /\ last.node \in config
    /\ run_pc[last.node] = "top"
    /\ ~running[last.node]
    /\ \E p \in DOMAIN peer_sockets[last.node] :
          /\ peer_sockets[last.node][p] = "closed"
          /\ log[last.node] # <<>>
          /\ log[last.node][Len(log[last.node])]
                = ErrorEntry(logical_clock[last.node], p)
          /\ logical_clock[last.node] >= 2

\* The threads of machine n have ended (a scheduler that was never started
\* has nothing to end).
Terminated(n) ==
    /\ srv_pc[n] \in {"done", "crashed"}
    /\ run_pc[n] \in {"idle", "done", "crashed"}

\* C13: once shutdown has been called on a machine, its scheduler starts no
\* new tick (the loop test that follows the tick under way ends the loop; a
\* run() called later ends at its first test), its listener leaves the loop at
\* its next test of the flag or by the failed accept, and both threads
\* eventually terminate.
C13_StopTerminates ==
    /\ [][\A n \in config :
             /\ ( ~running[n] /\ run_pc[n] = "top" ) => run_pc'[n] \in {"top", "done"}
             /\ ( ~running[n] /\ srv_pc[n] = "loop" ) => srv_pc'[n] \in {"loop", "done"}
             /\ ( ~running[n] /\ srv_pc[n] = "accept" /\ srv_pc'[n] # "accept" ) =>
                    \/ srv_pc'[n] = "crashed" /\ last'.exc = "OSError"
                    \/ srv_pc'[n] = "loop" /\ last'.exc = "timeout"
             /\ run_pc[n] \in {"done", "crashed"} => run_pc'[n] = run_pc[n]
             /\ srv_pc[n] \in {"done", "crashed"} => srv_pc'[n] = srv_pc[n]
        ]_vars
    /\ ( ~running[1] ~> Terminated(1) )

\* Machine 1 was stopped while a tick was under way: the listener ended on the
\* failed accept, and the scheduler completed that tick (past the cluster's
\* budget of ticks) and ended at the next loop test.
C13_Witness ==
    /\ ~running[1]
    /\ srv_pc[1] = "crashed"
    /\ run_pc[1] = "done"
    /\ ticks[1] > MaxTicks
    /\ last.op = "run_check"

\* C14: once shutdown has been called on a machine, no reader of that machine
\* adds a value to its inbound queue any more.
C14_NoEnqueueAfterShutdown ==
    [][\A r \in config :
          ~running[r] => Len(msg_queue'[r]) <= Len(msg_queue[r])
      ]_vars

\* The open outbound sockets machine n has to peer p: the one stored in
\* peer_sockets, and those it has replaced there without closing.
OpenOutbound(n, p) ==
    (IF p \in DOMAIN peer_sockets[n] /\ peer_sockets[n][p] = "open" THEN 1 ELSE 0)
        + dropped[n][p]

\* C15: at every moment a machine holds at most one open outbound connection
\* per peer, and none that peer_sockets does not hold, also when
\* connect_to_peers is called again on a machine that has connections.
C15_OneConnectionPerPeer ==
    \A n \in config : \A p \in config :
        /\ OpenOutbound(n, p) <= 1
        /\ dropped[n][p] = 0

\* Peer p listens from some moment on, for ever.
ListensForGood(p) == <>[](server_socket[p] = "open")

\* Machine 1 is never stopped and connect_to_peers is called on it.
ConnectsUnstopped == [](running[1]) /\ <>(cp_pc[1] # "idle")

\* C16 as stated: connect_to_peers retries without bound, and whenever a peer
\* listens from some moment on and the machine is not stopped, the connection
\* to that peer is eventually established.
C16_EveryListeningPeerConnected ==
    \A p \in {2, 3} :
        ( ConnectsUnstopped /\ ListensForGood(p) ) =>
            <>(p \in DOMAIN peer_sockets[1])

\* C16, amended: a refused attempt stores nothing, leaves no socket open and
\* keeps the peer at the head of the peers still to connect (the next attempt
\* is for the same peer); the call returns only with every peer stored in
\* peer_sockets or with the stop flag set; and if the machine is not stopped
\* and a peer and every peer before it in the order of the configuration
\* listen from some moment on, the connection to that peer is eventually
\* established. A peer behind one that never listens is never attempted.
C16_RetryInOrder ==
    /\ [][\A n \in config :
             /\ ( last'.op = "connect" /\ last'.node = n
                  /\ last'.exc = "ConnectionRefusedError" ) =>
                    /\ peer_sockets' = peer_sockets
                    /\ dropped' = dropped
                    /\ cp_todo'[n] = cp_todo[n]
                    /\ cp_pc'[n] = "check"
             /\ ( cp_pc[n] # "done" /\ cp_pc'[n] = "done" ) =>
                    \/ ~running[n]
                    \/ \A p \in peers(n) : p \in DOMAIN peer_sockets[n]
             /\ ( cp_pc[n] = "check" /\ cp_pc'[n] = "attempt" ) => running[n]
        ]_vars
    /\ \A p \in {2, 3} :
          ( /\ ConnectsUnstopped
            /\ \A q \in {2, 3} : q <= p => ListensForGood(q) ) =>
              <>(p \in DOMAIN peer_sockets[1])

\* connect_to_peers has returned on the running machine 1 with both peers
\* connected, after an attempt on a peer that was not listening yet.
C16_Witness ==
    /\ cp_pc[1] = "done"
    /\ running[1]
    /\ DOMAIN peer_sockets[1] = {2, 3}
    /\ last.op = "connect_check"
    /\ conn[1][3] = "backlog"
    /\ conn[1][2] = "reading"

\* The text of a line after line.strip() and after the prefix "clock:".
Payload(raw) == SubSeq(Strip(raw), Len(ClockPrefix) + 1, Len(Strip(raw)))

\* A line of the form "clock:<integer>": the prefix, and a payload that int()
\* takes as a whole.
WellFormedLine(raw) ==
    /\ StartsWith(Strip(raw), ClockPrefix)
    /\ ParseInt(Payload(raw)).ok

\* C17: a reader puts a value on the queue only for a line of the form
\* "clock:<integer>", and then that integer; any other line is dropped; in
\* both cases nothing is logged and the reader goes on reading.
C17_OnlyClockLinesEnqueued ==
    [][\A r \in config : \A s \in config :
          ( last'.op = "handle_client" /\ last'.node = r /\ last'.peer = s ) =>
              LET raw == Head(stream[s][r])
              IN  /\ msg_queue'[r] =
                         IF WellFormedLine(raw)
                         THEN Append(msg_queue[r], ParseInt(Payload(raw)).val)
                         ELSE msg_queue[r]
                  /\ log' = log
                  /\ conn'[s][r] = "reading"
      ]_vars

\* C18: a tick that finds the queue non-empty takes exactly its head, logs
\* exactly one RECEIVE entry and does nothing else (it draws nothing, writes
\* nothing, logs no other entry), so the queue is one shorter after it; only
\* a tick that finds the queue empty draws, and such a tick logs no RECEIVE.
C18_ReceivePriority ==
    [][\A n \in config :
          ( last'.op = "tick" /\ last'.node = n ) =>
              IF msg_queue[n] # <<>>
              THEN /\ last'.ret
                   /\ last'.draw = 0
                   /\ msg_queue'[n] = Tail(msg_queue[n])
                   /\ Len(log'[n]) = Len(log[n]) + 1
                   /\ log'[n][Len(log'[n])].type = "RECEIVE"
                   /\ log'[n][Len(log'[n])].msg = Head(msg_queue[n])
                   /\ log'[n][Len(log'[n])].qlen = Len(msg_queue[n]) - 1
                   /\ stream' = stream
              ELSE /\ ~last'.ret
                   /\ last'.draw \in 1..4
                   /\ msg_queue'[n] = <<>>
                   /\ \A i \in DOMAIN NewEntries(n) :
                         NewEntries(n)[i].type # "RECEIVE"
      ]_vars

\* With two messages queued, two ticks of machine 3 in a row were RECEIVE
\* events, and a later tick that found the queue empty drew an action.
C18_Witness ==
    /\ Len(log[3]) >= 3
    /\ log[3][1].type = "RECEIVE"
    /\ log[3][1].qlen >= 1
    /\ log[3][2].type = "RECEIVE"
    /\ log[3][3].type # "RECEIVE"
    /\ last.op = "tick"
    /\ last.draw >= 1

\* Machine n holds a working connection to p.
Connected(n, p) ==
    /\ p \in DOMAIN peer_sockets[n]
    /\ peer_sockets[n][p] = "open"

\* C19: a tick that drew 3 on a machine with N peers logs N entries, one per
\* peer in ascending order of identifier; the entry of a connected peer is a
\* SEND at the clock raised by 1, and the message written on that connection
\* carries that clock; the entry of a peer without connection is an ERROR at
\* the unchanged clock, and nothing is written. With all N peers connected
\* the clock rises by exactly N and the i-th SEND carries c + i, c the clock
\* before the tick.
C19_Broadcast ==
    [][\A n \in config :
          ( last'.op = "tick" /\ last'.node = n /\ last'.draw = 3 ) =>
              LET ps == sorted_peers(n)
                  c  == logical_clock[n]
                  E  == NewEntries(n)
              IN  /\ Len(E) = Len(ps)
                  /\ \A i \in DOMAIN E : \A j \in DOMAIN E :
                        i < j => E[i].peer < E[j].peer
                  /\ \A i \in DOMAIN E :
                        LET p == ps[i]
                            before == ClockBefore(E, c, i)
                        IN  IF Connected(n, p)
                            THEN /\ E[i] = SendEntry(before + 1, p)
                                 /\ Len(stream'[n][p]) = Len(stream[n][p]) + 1
                                 /\ SubSeq(stream'[n][p], 1, Len(stream[n][p]))
                                       = stream[n][p]
                                 /\ IsClockLine(stream'[n][p][Len(stream'[n][p])],
                                                before + 1)
                            ELSE /\ E[i].type = "ERROR"
                                 /\ E[i].peer = p
                                 /\ p \notin DOMAIN peer_sockets[n]
                                       => E[i].clock = before
                                 /\ stream'[n][p] = stream[n][p]
                  /\ logical_clock'[n] = IF E = <<>> THEN c ELSE E[Len(E)].clock
                  /\ msg_queue'[n] = msg_queue[n]
                  /\ ( \A i \in DOMAIN ps : Connected(n, ps[i]) ) =>
                        /\ logical_clock'[n] = c + Len(ps)
                        /\ \A i \in DOMAIN E : E[i] = SendEntry(c + i, ps[i])
      ]_vars

\* The last step was a broadcast tick of machine 1, connected to both its
\* peers, from a clock that had already advanced: it logged SEND to 2 and then
\* SEND to 3 at consecutive clocks, and wrote one message to each.
C19_Witness ==
    /\ last.op = "tick"
    /\ last.node = 1
    /\ last.draw = 3
    /\ Connected(1, 2)
    /\ Connected(1, 3)
    /\ Len(log[1]) >= 3
    /\ logical_clock[1] >= 3
    /\ log[1][Len(log[1]) - 1] = SendEntry(logical_clock[1] - 1, 2)
    /\ log[1][Len(log[1])] = SendEntry(logical_clock[1], 3)
    /\ stream[1][2] # <<>>
    /\ stream[1][3] # <<>>

\* The clock values machine 1 has written on its connection to machine 2, in
\* the order written (machine 2 reads nothing in SpecRace).
Transmitted ==
    [i \in DOMAIN stream[1][RacePeer] |-> ParseLine(stream[1][RacePeer][i]).val]

\* C20: whatever the interleaving of the scheduler thread with send_message
\* and process_message_queue called on the same machine from another thread,
\* the clock behaves as if it had a single writer: every assignment to the
\* clock raises it (no update is lost), the values the machine transmits are
\* strictly increasing over all its sends (none is transmitted twice), and
\* the SEND entry a call logs records the value that call transmitted.
C20_SingleWriterClock ==
    /\ [](\A i \in DOMAIN Transmitted : \A j \in DOMAIN Transmitted :
             i < j => Transmitted[i] < Transmitted[j])
    /\ [][\A t \in Threads :
             /\ ( frames[t].pc = "store" /\ frames'[t].pc # "store" ) =>
                    logical_clock'[1] > logical_clock[1]
             /\ ( frames[t].pc = "log" /\ frames'[t].pc = "idle"
                  /\ frames[t].op = "send" ) =>
                    log'[1] = Append(log[1],
                                     SendEntry(frames[t].message, RacePeer))
       ]_vars

\* C21: process_message_queue never blocks: a thread that found the queue
\* non-empty and goes on to msg_queue.get() finds an entry to take, whatever
\* the other thread and the reader did in between.
C21_DrainNeverBlocks ==
    \A t \in Threads : frames[t].pc = "get" => msg_queue[1] # <<>>

\* C22: a shutdown that runs while connect_to_peers is under way on another
\* thread raises no error, and once both calls have returned the machine
\* holds no open outbound connection.
C22_ShutdownDuringConnect ==
    /\ closing[1].exc = "none"
    /\ ( closing[1].pc = "done" /\ cp_pc[1] = "done" ) =>
           \A p \in peers(1) : OpenOutbound(1, p) = 0

\* Machine n has finished its connect phase with a connection to every peer
\* and is in the loop of run.
Started(n) ==
    /\ cp_pc[n] = "done"
    /\ ~in_ctor[n]
    /\ \A p \in peers(n) : p \in DOMAIN peer_sockets[n] /\ peer_sockets[n][p] = "open"
    /\ run_pc[n] = "top"

\* C23: in a cluster where every configured machine is launched, whatever the
\* order and the delays, every machine eventually finishes connecting to all
\* its peers and enters the scheduler loop, and stays there: no machine waits
\* forever on a peer that is itself still connecting.
C23_StartupCompletes == <>[](\A n \in Machines : Started(n))

\* Every machine listens, is connected to both its peers and has entered
\* run; machine 3 was the last to do so.
C23_Witness ==
    /\ \A n \in Machines : Started(n)
    /\ \A n \in Machines : server_socket[n] = "open"
    /\ \A s \in Machines : \A r \in Machines \ {s} : conn[s][r] \in {"backlog", "reading"}
    /\ last.op = "run"
    /\ last.node = 3

\* The number of values machine n has dequeued, and the number its readers
\* have put on its queue.
Dequeued(n) == SumOver([s \in config |-> Len(delivered[s][n])], config)

Enqueued(n) == Dequeued(n) + Len(msg_queue[n])

\* C24: while the scheduler of machine 3 keeps ticking and shutdown is not
\* called, the k-th value its readers put on the queue is eventually
\* dequeued, for every k, whatever arrives later and whatever the ticks that
\* found the queue empty drew; and every value dequeued has been applied to
\* the clock, which is greater than it.
C24_EveryMessageDequeued ==
    /\ [](\A s \in config : \A i \in DOMAIN delivered[s][3] :
             logical_clock[3] > delivered[s][3][i])
    /\ \A k \in 1..MaxDrainSends :
          (Enqueued(3) >= k) ~> (Dequeued(3) >= k)

\* Machine 3 has dequeued two values, one from each sender; one of them was
\* dequeued while another waited behind it, and a tick that drew an action
\* had been logged before the last RECEIVE.
C24_Witness ==
    /\ Dequeued(3) = 2
    /\ delivered[1][3] # <<>>
    /\ delivered[2][3] # <<>>
    /\ msg_queue[3] = <<>>
    /\ \E i \in DOMAIN log[3] : log[3][i].type = "RECEIVE" /\ log[3][i].qlen >= 1
    /\ \E i \in DOMAIN log[3] : \E j \in DOMAIN log[3] :
          i < j /\ log[3][i].type # "RECEIVE" /\ log[3][j].type = "RECEIVE"

====
